---- MODULE Spec2Model ----
(***************************************************************************)
(* Story-generation orchestration pipeline of backend/story_service.py and *)
(* the request handler of backend/server.py.                               *)
(*                                                                         *)
(* Texts (error messages, response texts) are sequences of chunks.  A      *)
(* chunk is one character, or a fixed phrase of the source that contains   *)
(* neither "429" nor "quota"; substring tests work on the chunks.          *)
(***************************************************************************)
EXTENDS Integers, Sequences, FiniteSets, TLC

(* ------------------------------ bounds --------------------------------- *)

\* largest number of image prompts in a narrative response of the model
MaxPrompts == 4

\* the requests the server handles concurrently
NumRequests == 2

Requests == 1..NumRequests

(* ------------------------- program constants --------------------------- *)

max_retries == 3

base_delay == 2

None == "None"

(* ------------------------------ texts ---------------------------------- *)

RECURSIVE Pow2(_)
Pow2(n) == IF n = 0 THEN 1 ELSE 2 * Pow2(n - 1)

\* variant: the delay does not grow with the attempt
Delay_Constant(attempt) == base_delay

\* delay = base_delay * (2 ** attempt)
Delay(attempt) == base_delay * Pow2(attempt)

\* variant: the bound of the test is off by one
AttemptsRemain_OffByOne(attempt) == attempt < max_retries

\* attempt < max_retries - 1
AttemptsRemain(attempt) == attempt < max_retries - 1

\* x in s   for strings, as sequences of chunks
Contains(s, x) ==
    \E i \in 1..(Len(s) - Len(x) + 1) : SubSeq(s, i, i + Len(x) - 1) = x

LowerChar(c) ==
    CASE c = "Q" -> "q" [] c = "U" -> "u" [] c = "O" -> "o"
      [] c = "T" -> "t" [] c = "A" -> "a" [] OTHER -> c

\* str.lower()
Lower(s) == [i \in 1..Len(s) |-> LowerChar(s[i])]

\* variant: the quota test without .lower()
IsQuotaError_CaseSensitive(e) ==
    \/ Contains(e, <<"4", "2", "9">>)
    \/ Contains(e, <<"q", "u", "o", "t", "a">>)

\* "429" in str(e) or "quota" in str(e).lower()
IsQuotaError(e) ==
    \/ Contains(e, <<"4", "2", "9">>)
    \/ Contains(Lower(e), <<"q", "u", "o", "t", "a">>)

DigitChar(d) == <<"0", "1", "2", "3", "4", "5", "6", "7", "8", "9">>[d + 1]

\* decimal formatting of a natural number, as in an f-string or %d
RECURSIVE Digits(_)
Digits(n) ==
    IF n < 10 THEN <<DigitChar(n)>>
    ELSE Digits(n \div 10) \o <<DigitChar(n % 10)>>

IsSpace(c) == c = " "

\* str.strip()
RECURSIVE LStrip(_)
LStrip(s) == IF s # <<>> /\ IsSpace(Head(s)) THEN LStrip(Tail(s)) ELSE s

RECURSIVE RStrip(_)
RStrip(s) ==
    IF s # <<>> /\ IsSpace(s[Len(s)]) THEN RStrip(SubSeq(s, 1, Len(s) - 1)) ELSE s

Strip(s) == RStrip(LStrip(s))

(* the texts str(e) of the errors the backend client raises *)
Err503 == <<"5", "0", "3">>
Err42x9 == <<"4", "2", ":", "9">>
Err429 == <<"E", "4", "2", "9">>
ErrQuotaMixed == <<"Q", "u", "o", "t", "a">>
ErrQuotaUpper == <<"Q", "U", "O", "T", "A", "!">>

BackendErrors == {Err503, Err42x9, Err429, ErrQuotaMixed, ErrQuotaUpper}

DEFAULT_DESCRIPTION == <<"A cheerful child with a bright smile and curious eyes.">>

(* ------------------------- Story and to_dict --------------------------- *)

Min(a, b) == IF a < b THEN a ELSE b

\* variant: s[-k:], the last k entries
Take_Last(s, k) == SubSeq(s, Len(s) - Min(k, Len(s)) + 1, Len(s))

\* s[:k]
Take(s, k) == SubSeq(s, 1, Min(k, Len(s)))

\* truth value of an image entry: None and empty bytes are falsy
Truthy(img) == img # None /\ img # ""

\* base64.b64encode(img).decode('utf-8')
B64Encode(img) == "b64(" \o img \o ")"

\* Story.__init__
Story(title, moral, story, imagePrompts, images) ==
    [title |-> title, moral |-> moral, story |-> story,
     imagePrompts |-> imagePrompts, images |-> images]

\* variant: the entries without an image are left out of the list
to_dict_Compacted(self) ==
    LET kept == SelectSeq(self.images, Truthy)
    IN  [title |-> self.title, moral |-> self.moral, story |-> self.story,
         imagePrompts |-> self.imagePrompts,
         images |-> [i \in 1..Len(kept) |-> B64Encode(kept[i])]]

\* Story.to_dict
to_dict(self) ==
    [title |-> self.title, moral |-> self.moral, story |-> self.story,
     imagePrompts |-> self.imagePrompts,
     images |-> [i \in 1..Len(self.images) |->
                    IF Truthy(self.images[i]) THEN B64Encode(self.images[i])
                    ELSE None]]

(* ----------------------- create_fallback_story ------------------------- *)

\* length_mapping.get(story_length, 8)
SentenceCount(story_length) ==
    CASE story_length = "short" -> 6
      [] story_length = "medium" -> 8
      [] story_length = "long" -> 12
      [] OTHER -> 8

FallbackThemes == {"forest", "space", "ocean", "kingdom", "dinosaur"}

TemplateTitle(theme, kid_name) ==
    CASE theme = "forest" -> kid_name \o "'s Magical Forest Adventure"
      [] theme = "space" -> kid_name \o "'s Cosmic Journey"
      [] theme = "ocean" -> kid_name \o " and the Underwater Kingdom"
      [] theme = "kingdom" -> kid_name \o " and the Dragon's Gift"
      [] theme = "dinosaur" -> kid_name \o "'s Prehistoric Adventure"

TemplateMoral(theme) ==
    CASE theme = "forest" -> "Kindness to nature brings unexpected friends and rewards."
      [] theme = "space" -> "Courage and friendship can overcome any challenge in the universe."
      [] theme = "ocean" -> "True friendship means helping others in need, no matter how different they may be."
      [] theme = "kingdom" -> "True courage means facing your fears to help others."
      [] theme = "dinosaur" -> "Teamwork and understanding can overcome the biggest challenges."

\* the 8 sentences of a template, abbreviated to theme, position and name
TemplateStory(theme, kid_name) ==
    [i \in 1..8 |-> theme \o " sentence " \o ToString(i) \o " about " \o kid_name]

\* the 4 image prompts of a template, abbreviated likewise
TemplatePrompts(theme, kid_name) ==
    [i \in 1..4 |-> theme \o " picture " \o ToString(i) \o " of " \o kid_name]

FillerSentence(kid_name) ==
    kid_name \o " had an amazing adventure and couldn't wait to tell everyone about it."

FillerPrompt(kid_name, theme) ==
    kid_name \o " having a wonderful adventure in a magical " \o theme \o " setting."

\* variant: the filler is appended once, not until the length is reached
PadTo_Once(xs, n, filler) ==
    IF Len(xs) < n THEN Append(xs, filler) ELSE xs

\* while len(xs) < n: xs.append(filler)
PadTo(xs, n, filler) ==
    IF Len(xs) < n THEN xs \o [i \in 1..(n - Len(xs)) |-> filler] ELSE xs

\* variant: a theme without a template gets the space template
FallbackTheme_DefaultSpace(theme) ==
    IF theme \notin FallbackThemes THEN "space" ELSE theme

\* if theme not in fallback_stories: theme = "forest"
FallbackTheme(theme) ==
    IF theme \notin FallbackThemes THEN "forest" ELSE theme

create_fallback_story(kid_name, theme0, story_type, story_length, special_ingredients, child_description) ==
    LET sentence_count == SentenceCount(story_length)
        theme == FallbackTheme(theme0)
        tstory == TemplateStory(theme, kid_name)
        tprompts == TemplatePrompts(theme, kid_name)
        img_count == sentence_count \div 2
        story == IF Len(tstory) = sentence_count THEN tstory
                 ELSE IF Len(tstory) > sentence_count
                      THEN Take(tstory, sentence_count)
                      ELSE PadTo(tstory, sentence_count, FillerSentence(kid_name))
        prompts == IF Len(tstory) = sentence_count THEN tprompts
                   ELSE IF Len(tstory) > sentence_count
                        THEN Take(tprompts, img_count)
                        ELSE PadTo(tprompts, img_count, FillerPrompt(kid_name, theme))
    IN  Story(TemplateTitle(theme, kid_name), TemplateMoral(theme), story, prompts,
              [i \in 1..Len(prompts) |-> None])

(* ------------------ narrative response text and JSON ------------------- *)

\* A JSON document is one chunk of a response text, named here and
\* described by JsonBody: whether it is valid JSON (and where decoding
\* stops when it is not), and what value it decodes to.
StoryKeys == {"title", "moral", "story", "imagePrompts"}

ModelStory(n) == [i \in 1..n |-> "model sentence " \o ToString(i)]

ModelPrompts(n) == [i \in 1..n |-> "model prompt " \o ToString(i)]

JsonValue(valid, errpos, isObject, keys, nprompts, promptsIsList) ==
    [valid |-> valid, errpos |-> errpos, isObject |-> isObject, keys |-> keys,
     title |-> "Model Title", moral |-> "Model moral", story |-> ModelStory(2),
     promptsIsList |-> promptsIsList, imagePrompts |-> ModelPrompts(nprompts)]

FullBodyNames == {"{full " \o ToString(n) \o "}" : n \in 0..MaxPrompts}

BodyNames ==
    FullBodyNames \cup
    {"{bad@5", "{bad@429", "[]", "{no imagePrompts}", "{no title}", "{imagePrompts: 7}",
     "{moral: null}"}

JsonBody(name) ==
    CASE name = "{bad@5" -> JsonValue(FALSE, 5, FALSE, {}, 0, FALSE)
      [] name = "{bad@429" -> JsonValue(FALSE, 429, FALSE, {}, 0, FALSE)
      [] name = "[]" -> JsonValue(TRUE, 0, FALSE, {}, 0, FALSE)
      [] name = "{no imagePrompts}" ->
            JsonValue(TRUE, 0, TRUE, StoryKeys \ {"imagePrompts"}, 0, FALSE)
      [] name = "{no title}" -> JsonValue(TRUE, 0, TRUE, StoryKeys \ {"title"}, 1, TRUE)
      [] name = "{imagePrompts: 7}" -> JsonValue(TRUE, 0, TRUE, StoryKeys, 0, FALSE)
      [] name = "{moral: null}" ->
            [JsonValue(TRUE, 0, TRUE, StoryKeys, 0, TRUE) EXCEPT !.moral = None]
      [] OTHER ->
            JsonValue(TRUE, 0, TRUE, StoryKeys,
                      CHOOSE n \in 0..MaxPrompts : name = "{full " \o ToString(n) \o "}",
                      TRUE)

\* the chunk standing for the seven characters of an opening markdown json fence
FENCE_JSON == "<fence json>"

\* the chunk standing for the three backquotes of a closing fence
FENCE == "<fence>"

\* variant: the closing fence is removed only when an opening fence was
StripFences_ClosingOnlyAfterOpening(text0) ==
    IF text0 # <<>> /\ Head(text0) = FENCE_JSON
    THEN LET text1 == Tail(text0)
         IN  IF text1 # <<>> /\ text1[Len(text1)] = FENCE
             THEN SubSeq(text1, 1, Len(text1) - 1) ELSE text1
    ELSE text0

\* text.startswith(opening fence) -> text[7:] ; text.endswith(fence) -> text[:-3]
StripFences(text0) ==
    LET text1 == IF text0 # <<>> /\ Head(text0) = FENCE_JSON THEN Tail(text0) ELSE text0
    IN  IF text1 # <<>> /\ text1[Len(text1)] = FENCE
        THEN SubSeq(text1, 1, Len(text1) - 1) ELSE text1

\* str(json.JSONDecodeError) for a one-line document: the column is pos + 1
JSONDecodeErrorText(pos) ==
    <<"Expecting value: line 1 column ">> \o Digits(pos + 1)
        \o <<" (char ">> \o Digits(pos) \o <<")">>

\* json.loads(text): leading and trailing whitespace is skipped, then exactly
\* one valid document must remain
loads(text) ==
    LET lead == Len(text) - Len(LStrip(text))
        t == Strip(text)
    IN  IF t = <<>> \/ Head(t) \notin BodyNames
        THEN [ok |-> FALSE, err |-> JSONDecodeErrorText(lead)]
        ELSE IF ~JsonBody(Head(t)).valid
        THEN [ok |-> FALSE, err |-> JSONDecodeErrorText(lead + JsonBody(Head(t)).errpos)]
        ELSE IF Len(t) > 1
        THEN [ok |-> FALSE, err |-> JSONDecodeErrorText(lead + 1)]
        ELSE [ok |-> TRUE, value |-> JsonBody(Head(t))]

\* str(KeyError(key))
KeyErrorText(key) == <<"'", key, "'">>

NoLenText == <<"object of type 'int' has no len()">>

NotSubscriptableText == <<"list indices must be integers or slices, not str">>

NotInitializedText == <<"Gemini API not initialized">>

NoContentText == <<"Failed to generate story content">>

\* f"Failed to generate story after {max_retries} attempts: {str(e)}"
FailedAfterText(e) ==
    <<"Failed to generate story after ">> \o Digits(max_retries) \o <<" attempts: ">> \o e

\* the exception, if any, that evaluating the arguments of the call of
\* generate_images raises (story_data["imagePrompts"], story_data["story"])
ArgumentsError(story_data) ==
    IF ~story_data.isObject THEN NotSubscriptableText
    ELSE IF "imagePrompts" \notin story_data.keys THEN KeyErrorText("imagePrompts")
    ELSE IF "story" \notin story_data.keys THEN KeyErrorText("story")
    ELSE <<>>

\* the exception, if any, that generate_images raises: len(prompts) in its
\* first statement raises inside the try, and the handler, which evaluates
\* [None] * len(prompts), raises it again
ImagesEntryError(story_data) ==
    IF ~story_data.promptsIsList THEN NoLenText ELSE <<>>

\* the exception, if any, raised for a decoded value before the first
\* illustration call
PreImagesError(story_data) ==
    IF ArgumentsError(story_data) # <<>> THEN ArgumentsError(story_data)
    ELSE ImagesEntryError(story_data)

\* the exception, if any, that building the Story raises after the images
\* (story_data["title"], story_data["moral"])
PostImagesError(story_data) ==
    IF "title" \notin story_data.keys THEN KeyErrorText("title")
    ELSE IF "moral" \notin story_data.keys THEN KeyErrorText("moral")
    ELSE <<>>

\* the image bytes the backend returns for an enhanced prompt
ImageOf(prompt) == "image of " \o prompt

\* f"A children's storybook illustration of: {prompt}. Style: ..."
EnhancedPrompt(prompt) ==
    "A children's storybook illustration of: " \o prompt
        \o ". Style: colorful, friendly, vibrant, storybook art."

(* ------------------------------- inputs -------------------------------- *)

KidNames == {"Mia"}

Themes == {"space", "custom"}

StoryLengths == {"short", "long", "epic"}

\* response.text of the vision call: absent, empty, blank, or a description
PhotoTexts == {<<>>, <<" ">>, <<" ", "A child with curly hair.", " ">>}

Response(kind, text) == [kind |-> kind, text |-> text]

\* what one vision call does: raises an error, or returns a response
PhotoResponses ==
    {Response("error", e) : e \in BackendErrors}
        \cup {Response("none", <<>>)}
        \cup {Response("text", t) : t \in PhotoTexts}

\* response.text of the narrative call
NarrTexts ==
    {<<>>, <<" ">>}
        \cup {<<b>> : b \in BodyNames}
        \cup {<<FENCE_JSON, " ", "{full 1}", " ", FENCE>>,
              <<" ", FENCE_JSON, "{full 1}">>,
              <<"{full 1}", FENCE, " ">>,
              <<FENCE, "{full 1}", FENCE>>,
              <<"{full 1}", "{full 1}">>}

NarrResponses ==
    {Response("error", e) : e \in BackendErrors}
        \cup {Response("none", <<>>)}
        \cup {Response("text", t) : t \in NarrTexts}

\* what one image call does: raises, returns no inline data, or returns data
ImageResponses ==
    {Response("error", e) : e \in BackendErrors}
        \cup {Response("nopayload", <<>>), Response("image", <<>>)}

NoRequest ==
    [kid_name |-> "", theme |-> "", story_type |-> "", story_length |-> "",
     special_ingredients |-> "", age_level |-> ""]

NoStory == Story("", "", <<>>, <<>>, <<>>)

NoData == JsonValue(FALSE, 0, FALSE, {}, 0, FALSE)

NoResponse == Response("", <<>>)

\* variant: a length that is not in the mapping counts as short
PromptSentenceCount_DefaultShort(story_length) ==
    CASE story_length = "short" -> 6
      [] story_length = "medium" -> 8
      [] story_length = "long" -> 12
      [] OTHER -> 6

\* length_mapping.get(story_length, 8) of generate_story
PromptSentenceCount(story_length) ==
    CASE story_length = "short" -> 6
      [] story_length = "medium" -> 8
      [] story_length = "long" -> 12
      [] OTHER -> 8

\* theme_descriptions.get(theme, theme_descriptions["custom"])
ThemeDescription(theme, special_ingredients) ==
    CASE theme = "forest" -> "magical forest with talking animals and ancient trees"
      [] theme = "space" -> "outer space adventure with planets, stars, and alien friends"
      [] theme = "ocean" -> "underwater kingdom with colorful fish and hidden treasures"
      [] theme = "kingdom" -> "magical kingdom with castles, dragons, and wizards"
      [] theme = "dinosaur" ->
            "prehistoric world with friendly dinosaurs and ancient landscapes"
      [] OTHER -> IF special_ingredients # "" THEN special_ingredients
                  ELSE "magical world of wonder and adventure"

\* the prompt of generate_story, as the values its f-string interpolates;
\* the numbers are formatted in decimal
StoryPrompt(kid_name, age_level, theme, story_type, story_length, special_ingredients, description) ==
    [kid_name |-> kid_name, description |-> description, age_level |-> age_level,
     theme_description |-> ThemeDescription(theme, special_ingredients),
     story_type |-> story_type, special_ingredients |-> special_ingredients,
     sentences |-> Digits(PromptSentenceCount(story_length)),
     prompts |-> Digits(PromptSentenceCount(story_length) \div 2)]

NoPrompt == StoryPrompt("", "", "", "", "", "", <<>>)

\* the ids a story can be asked for: the ids of the requests, and an id
\* that was never given to a story
StoryIds == Requests \cup {NumRequests + 1}

\* the answer to a GET: what find_one did, the status and the detail
Retrieval(lookup, status, detail) ==
    [lookup |-> lookup, status |-> status, detail |-> detail]

NoRetrieval == Retrieval("", "none", <<>>)

(* ------------------------------- state --------------------------------- *)

VARIABLES
    API_INITIALIZED,    \* module global set at import
    loop,               \* the requests whose handler holds the event-loop thread
    pc,                 \* where each request's handler is
    req,                \* the form fields of each request
    child_description,  \* local of process_story_request
    attempt,            \* loop variable of analyze_photo and of generate_story
    story_data,         \* local of generate_story: the decoded response
    idx,                \* generate_images: 1-based index of the current prompt
    img_attempt,        \* generate_images: loop variable of the inner loop
    images,             \* generate_images: the list being built
    img_fate,           \* history: how each finished prompt of the batch ended
    story,              \* the Story generate_story or the fallback returned
    result,             \* the dict process_story_request returned
    exc,                \* str(e) of the exception generate_story raised
    via,                \* history: which return statement produced the result
    oplog,              \* history: calls and sleeps of the current operations
    response,           \* the status of the response the requester got
    background_tasks,   \* the requests whose save_story_to_db task is queued
    db_stories,         \* db.stories: the ids of the stored documents
    insert_log,         \* history: outcome of each insert_one, per request
    retrieval,          \* what the last GET of each story id was answered
    story_prompt,       \* local of generate_story: the prompt it has built
    narr_response,      \* local of generate_story: the response of the attempt
    batches,            \* history: the runs of generate_images in the request
    pauses              \* history: the pauses of the current run of generate_images

\* the state of the server around the pipeline
persistence == <<response, background_tasks, db_stories, insert_log, retrieval>>

\* the prompt and the response of generate_story, and what is recorded of
\* the runs of generate_images
generation == <<story_prompt, narr_response, batches, pauses>>

vars ==
    <<API_INITIALIZED, loop, pc, req, child_description, attempt, story_data,
      idx, img_attempt, images, img_fate, story, result, exc, via, oplog,
      response, background_tasks, db_stories, insert_log, retrieval,
      story_prompt, narr_response, batches, pauses>>

Sites == {"photo", "narr", "img"}

NoLog == [s \in Sites |-> <<>>]

CallEv(out, sig) == [ev |-> "call", out |-> out, sig |-> sig, d |-> 0]

SleepEv(d) == [ev |-> "sleep", out |-> "", sig |-> FALSE, d |-> d]

\* the error texts that contain 429, or quota in any letter case
QuotaSignatureTexts ==
    {Err429, ErrQuotaMixed, ErrQuotaUpper,
     JSONDecodeErrorText(428), JSONDecodeErrorText(429)}

HasSignature(e) == e \in QuotaSignatureTexts

\* the log keeps the kind of the latest call; an earlier call that failed
\* without a quota signature is kept as a plain failure
Older(e) ==
    IF e.ev = "call" /\ e.out # "ok" /\ ~e.sig THEN [e EXCEPT !.out = "fail"] ELSE e

Logged(log, r, site, evs) ==
    [log EXCEPT ![r][site] = [i \in 1..Len(@) |-> Older(@[i])] \o evs]

\* once the sleep that follows a failed call is over, only the fact that
\* the call failed is kept
Settled(log, r, site) ==
    [log EXCEPT ![r][site] = [i \in 1..Len(@) |-> Older(@[i])]]

Cleared(log, r, site) == [log EXCEPT ![r][site] = <<>>]

\* the state after import, with every handler at the control point pc0
\* gives it and no local set
InitAt(pc0) ==
    /\ API_INITIALIZED \in BOOLEAN
    /\ loop = {}
    /\ pc = pc0
    /\ req = [r \in Requests |-> NoRequest]
    /\ child_description = [r \in Requests |-> <<>>]
    /\ attempt = [r \in Requests |-> 0]
    /\ story_data = [r \in Requests |-> NoData]
    /\ idx = [r \in Requests |-> 0]
    /\ img_attempt = [r \in Requests |-> 0]
    /\ images = [r \in Requests |-> <<>>]
    /\ img_fate = [r \in Requests |-> <<>>]
    /\ story = [r \in Requests |-> NoStory]
    /\ result = [r \in Requests |-> to_dict(NoStory)]
    /\ exc = [r \in Requests |-> <<>>]
    /\ via = [r \in Requests |-> "none"]
    /\ oplog = [r \in Requests |-> NoLog]
    /\ response = [r \in Requests |-> "none"]
    /\ background_tasks = {}
    /\ insert_log = [r \in Requests |-> <<>>]
    /\ retrieval = [id \in StoryIds |-> NoRetrieval]
    /\ story_prompt = [r \in Requests |-> NoPrompt]
    /\ narr_response = [r \in Requests |-> NoResponse]
    /\ batches = [r \in Requests |-> 0]
    /\ pauses = [r \in Requests |-> <<>>]

\* the state after import and server start, with the requests of
\* arrived in flight and an empty collection
InitWith(arrived) ==
    /\ InitAt([r \in Requests |-> IF r \in arrived THEN "pending" ELSE "absent"])
    /\ db_stories = {}

\* one request
Init == InitWith({1})

(* ------------------------- one loop iteration -------------------------- *)

\* variant: process_story_request without its test of API_INITIALIZED
BackendSkipped_Never == FALSE

\* process_story_request: if not API_INITIALIZED, no backend is used
BackendSkipped == ~API_INITIALIZED

\* analyze_photo before its loop: without a client, or when Image.open
\* raises on the photo bytes, the default description is returned
AnalyzeEntry(initialized, photo_ok) ==
    IF ~initialized THEN "default"
    ELSE IF ~photo_ok THEN "default"
    ELSE "loop"

\* variant: after the last failed attempt nothing is returned
PhotoStep_ExhaustedEmpty(a, resp) ==
    IF resp.kind = "text" /\ resp.text # <<>>
    THEN [next |-> "return", value |-> Strip(resp.text), delay |-> 0]
    ELSE IF resp.kind = "error" /\ IsQuotaError(resp.text)
    THEN [next |-> "return", value |-> DEFAULT_DESCRIPTION, delay |-> 0]
    ELSE IF AttemptsRemain(a)
    THEN [next |-> "sleep", value |-> <<>>, delay |-> Delay(a)]
    ELSE [next |-> "return", value |-> <<>>, delay |-> 0]

\* variant: after a response without text the next attempt follows at once
PhotoStep_NoBackoffOnEmpty(a, resp) ==
    IF resp.kind = "text" /\ resp.text # <<>>
    THEN [next |-> "return", value |-> Strip(resp.text), delay |-> 0]
    ELSE IF resp.kind = "error" /\ IsQuotaError(resp.text)
    THEN [next |-> "return", value |-> DEFAULT_DESCRIPTION, delay |-> 0]
    ELSE IF AttemptsRemain(a)
    THEN [next |-> "sleep", value |-> <<>>,
          delay |-> IF resp.kind = "error" THEN Delay(a) ELSE 0]
    ELSE [next |-> "return", value |-> DEFAULT_DESCRIPTION, delay |-> 0]

\* analyze_photo, body of the retry loop: what one call's outcome leads to
PhotoStep(a, resp) ==
    IF resp.kind = "text" /\ resp.text # <<>>
    THEN [next |-> "return", value |-> Strip(resp.text), delay |-> 0]
    ELSE IF resp.kind = "error" /\ IsQuotaError(resp.text)
    THEN [next |-> "return", value |-> DEFAULT_DESCRIPTION, delay |-> 0]
    ELSE IF AttemptsRemain(a)
    THEN [next |-> "sleep", value |-> <<>>, delay |-> Delay(a)]
    ELSE [next |-> "return", value |-> DEFAULT_DESCRIPTION, delay |-> 0]

\* variant: a quota error leaves the inner loop without appending None
ImageStep_BreakOnQuota(a, resp, prompt) ==
    LET image_data == IF resp.kind = "image" THEN ImageOf(EnhancedPrompt(prompt)) ELSE None
    IN  IF resp.kind # "error" /\ Truthy(image_data)
        THEN [next |-> "append", value |-> image_data, delay |-> 0]
        ELSE IF resp.kind = "error" /\ IsQuotaError(resp.text)
        THEN [next |-> "break", value |-> None, delay |-> 0]
        ELSE IF AttemptsRemain(a)
        THEN [next |-> "sleep", value |-> None, delay |-> Delay(a)]
        ELSE [next |-> "append", value |-> None, delay |-> 0]

\* variant: a quota error is retried like any other error
ImageStep_QuotaRetried(a, resp, prompt) ==
    LET image_data == IF resp.kind = "image" THEN ImageOf(EnhancedPrompt(prompt)) ELSE None
    IN  IF resp.kind # "error" /\ Truthy(image_data)
        THEN [next |-> "append", value |-> image_data, delay |-> 0]
        ELSE IF AttemptsRemain(a)
        THEN [next |-> "sleep", value |-> None, delay |-> Delay(a)]
        ELSE [next |-> "append", value |-> None, delay |-> 0]

\* variant: a response without payload gives None at once, without retry
ImageStep_NoRetryOnEmpty(a, resp, prompt) ==
    LET image_data == IF resp.kind = "image" THEN ImageOf(EnhancedPrompt(prompt)) ELSE None
    IN  IF resp.kind # "error" /\ Truthy(image_data)
        THEN [next |-> "append", value |-> image_data, delay |-> 0]
        ELSE IF resp.kind = "error" /\ IsQuotaError(resp.text)
        THEN [next |-> "append", value |-> None, delay |-> 0]
        ELSE IF resp.kind = "error" /\ AttemptsRemain(a)
        THEN [next |-> "sleep", value |-> None, delay |-> Delay(a)]
        ELSE [next |-> "append", value |-> None, delay |-> 0]

\* generate_images, body of the inner loop: what one call's outcome leads to
ImageStep(a, resp, prompt) ==
    LET image_data == IF resp.kind = "image" THEN ImageOf(EnhancedPrompt(prompt)) ELSE None
    IN  IF resp.kind # "error" /\ Truthy(image_data)
        THEN [next |-> "append", value |-> image_data, delay |-> 0]
        ELSE IF resp.kind = "error" /\ IsQuotaError(resp.text)
        THEN [next |-> "append", value |-> None, delay |-> 0]
        ELSE IF AttemptsRemain(a)
        THEN [next |-> "sleep", value |-> None, delay |-> Delay(a)]
        ELSE [next |-> "append", value |-> None, delay |-> 0]

(* --------------------------- return paths ------------------------------ *)

\* variant: no pause after a prompt that ended on a quota error
PromptPause_SkippedOnQuota(fate) == IF fate = "quota" THEN <<>> ELSE <<1>>

\* generate_images: the time.sleep(1) that follows the inner loop of a
\* prompt, however the loop ended (fate): the durations slept
PromptPause(fate) == <<1>>

\* the handler of r holds the event-loop thread
Runs(r) == loop = {r}

Fallback(r, description) ==
    create_fallback_story(req[r].kid_name, req[r].theme, req[r].story_type,
                          req[r].story_length, req[r].special_ingredients, description)

\* process_story_request returns st.to_dict()
Returns(r, st, how) ==
    /\ story' = [story EXCEPT ![r] = st]
    /\ result' = [result EXCEPT ![r] = to_dict(st)]
    /\ via' = [via EXCEPT ![r] = how]
    /\ pc' = [pc EXCEPT ![r] = "returned"]
    /\ UNCHANGED exc

\* generate_story, outer handler: fallback on a quota text, else re-raise
OuterExcept(r, e) ==
    IF IsQuotaError(e)
    THEN Returns(r, Fallback(r, child_description[r]), "quota")
    ELSE /\ pc' = [pc EXCEPT ![r] = "raised"]
         /\ exc' = [exc EXCEPT ![r] = e]
         /\ UNCHANGED <<story, result, via>>

\* variant: the handler of one attempt without the quota test
InnerExcept_NoQuotaCheck(r, e, out, log) ==
    IF AttemptsRemain(attempt[r])
    THEN /\ pc' = [pc EXCEPT ![r] = "narr_sleep"]
         /\ oplog' = Logged(log, r, "narr",
                            <<CallEv(out, HasSignature(e)), SleepEv(Delay(attempt[r]))>>)
         /\ UNCHANGED <<story, result, via, exc>>
    ELSE /\ OuterExcept(r, FailedAfterText(e))
         /\ oplog' = Logged(log, r, "narr", <<CallEv(out, HasSignature(e))>>)

\* generate_story, handler of one attempt: fallback on a quota text, else
\* sleep and retry while attempts remain, else raise
InnerExcept(r, e, out, log) ==
    IF IsQuotaError(e)
    THEN /\ Returns(r, Fallback(r, child_description[r]), "quota")
         /\ oplog' = Logged(log, r, "narr", <<CallEv(out, HasSignature(e))>>)
    ELSE IF AttemptsRemain(attempt[r])
    THEN /\ pc' = [pc EXCEPT ![r] = "narr_sleep"]
         /\ oplog' = Logged(log, r, "narr",
                            <<CallEv(out, HasSignature(e)), SleepEv(Delay(attempt[r]))>>)
         /\ UNCHANGED <<story, result, via, exc>>
    ELSE /\ OuterExcept(r, FailedAfterText(e))
         /\ oplog' = Logged(log, r, "narr", <<CallEv(out, HasSignature(e))>>)

\* variant: a story with a missing illustration is replaced by the fallback
AfterImages_FallbackOnMissingImage(r, sd, imgs, log) ==
    IF PostImagesError(sd) # <<>>
    THEN InnerExcept(r, PostImagesError(sd), "shape_after", log)
    ELSE IF \E i \in 1..Len(imgs) : imgs[i] = None
    THEN /\ Returns(r, Fallback(r, child_description[r]), "quota")
         /\ oplog' = Logged(log, r, "narr", <<CallEv("ok", FALSE)>>)
    ELSE /\ Returns(r, Story(sd.title, sd.moral, sd.story, sd.imagePrompts, imgs), "live")
         /\ oplog' = Logged(log, r, "narr", <<CallEv("ok", FALSE)>>)

\* variant: the prompts of the model are cut to sentence_count // 2
AfterImages_PromptsCut(r, sd, imgs, log) ==
    IF PostImagesError(sd) # <<>>
    THEN InnerExcept(r, PostImagesError(sd), "shape_after", log)
    ELSE /\ Returns(r, Story(sd.title, sd.moral, sd.story,
                             Take(sd.imagePrompts,
                                  PromptSentenceCount(req[r].story_length) \div 2),
                             imgs), "live")
         /\ oplog' = Logged(log, r, "narr", <<CallEv("ok", FALSE)>>)

\* generate_story after generate_images returned imgs: build the Story
AfterImages(r, sd, imgs, log) ==
    IF PostImagesError(sd) # <<>>
    THEN InnerExcept(r, PostImagesError(sd), "shape_after", log)
    ELSE /\ Returns(r, Story(sd.title, sd.moral, sd.story, sd.imagePrompts, imgs), "live")
         /\ oplog' = Logged(log, r, "narr", <<CallEv("ok", FALSE)>>)

(* ------------------------------ actions -------------------------------- *)

\* server.generate_story resumes after reading the upload and calls
\* process_story_request, which runs up to the first backend call
Start(r) ==
    /\ pc[r] = "pending"
    /\ loop = {}
    /\ loop' = {r}
    /\ \E kid \in KidNames, th \in Themes, len \in StoryLengths :
          req' = [req EXCEPT ![r] =
                    [kid_name |-> kid, theme |-> th, story_type |-> "adventure",
                     story_length |-> len, special_ingredients |-> "",
                     age_level |-> "3-5"]]
    /\ \E photo_ok \in BOOLEAN :
       IF BackendSkipped
       THEN /\ story' = [story EXCEPT ![r] =
                  create_fallback_story(req'[r].kid_name, req'[r].theme,
                      req'[r].story_type, req'[r].story_length,
                      req'[r].special_ingredients, DEFAULT_DESCRIPTION)]
            /\ result' = [result EXCEPT ![r] = to_dict(story'[r])]
            /\ via' = [via EXCEPT ![r] = "uninit"]
            /\ pc' = [pc EXCEPT ![r] = "returned"]
            /\ UNCHANGED child_description
       ELSE IF AnalyzeEntry(API_INITIALIZED, photo_ok) = "default"
       THEN \* analyze_photo returns the default without a backend call
            /\ child_description' = [child_description EXCEPT ![r] = DEFAULT_DESCRIPTION]
            /\ pc' = [pc EXCEPT ![r] = "photo_ret"]
            /\ UNCHANGED <<story, result, via>>
       ELSE /\ pc' = [pc EXCEPT ![r] = "photo"]
            /\ UNCHANGED <<child_description, story, result, via>>
    /\ attempt' = [attempt EXCEPT ![r] = 0]
    /\ UNCHANGED <<API_INITIALIZED, story_data, idx, img_attempt, images, img_fate,
                   exc, oplog>>
    /\ UNCHANGED persistence
    /\ UNCHANGED generation

\* analyze_photo: one iteration of the retry loop, up to its sleep or return
PhotoAttempt(r) ==
    /\ pc[r] = "photo"
    /\ Runs(r)
    /\ \E resp \in PhotoResponses :
        LET step == PhotoStep(attempt[r], resp)
            out == IF resp.kind = "error" THEN "error"
                   ELSE IF resp.kind = "text" /\ resp.text # <<>> THEN "ok" ELSE "empty"
            ev == CallEv(out, resp.kind = "error" /\ HasSignature(resp.text))
        IN  IF step.next = "sleep"
            THEN /\ pc' = [pc EXCEPT ![r] = "photo_sleep"]
                 /\ oplog' = Logged(oplog, r, "photo", <<ev, SleepEv(step.delay)>>)
                 /\ UNCHANGED child_description
            ELSE /\ child_description' = [child_description EXCEPT ![r] = step.value]
                 /\ pc' = [pc EXCEPT ![r] = "photo_ret"]
                 /\ oplog' = Logged(oplog, r, "photo", <<ev>>)
    /\ UNCHANGED <<API_INITIALIZED, loop, req, attempt, story_data, idx, img_attempt,
                   images, img_fate, story, result, exc, via>>
    /\ UNCHANGED persistence
    /\ UNCHANGED generation

\* analyze_photo: time.sleep(delay) returns, next iteration
PhotoWake(r) ==
    /\ pc[r] = "photo_sleep"
    /\ Runs(r)
    /\ attempt' = [attempt EXCEPT ![r] = @ + 1]
    /\ pc' = [pc EXCEPT ![r] = "photo"]
    /\ oplog' = Settled(oplog, r, "photo")
    /\ UNCHANGED <<API_INITIALIZED, loop, req, child_description, story_data, idx,
                   img_attempt, images, img_fate, story, result, exc, via>>
    /\ UNCHANGED persistence
    /\ UNCHANGED generation

\* process_story_request calls generate_story, which runs up to its loop
StoryStart(r) ==
    /\ pc[r] = "photo_ret"
    /\ Runs(r)
    /\ attempt' = [attempt EXCEPT ![r] = 0]
    /\ oplog' = Cleared(oplog, r, "photo")
    /\ IF ~API_INITIALIZED
       THEN /\ OuterExcept(r, NotInitializedText)
            /\ UNCHANGED story_prompt
       ELSE /\ story_prompt' = [story_prompt EXCEPT ![r] =
                  StoryPrompt(req[r].kid_name, req[r].age_level, req[r].theme,
                              req[r].story_type, req[r].story_length,
                              req[r].special_ingredients, child_description[r])]
            /\ pc' = [pc EXCEPT ![r] = "narr"]
            /\ UNCHANGED <<story, result, via, exc>>
    /\ UNCHANGED <<API_INITIALIZED, loop, req, child_description, story_data, idx,
                   img_attempt, images, img_fate>>
    /\ UNCHANGED persistence
    /\ UNCHANGED <<narr_response, batches, pauses>>

\* generate_story: one iteration of the retry loop, up to its sleep, its
\* return, its raise, or the first image call of generate_images
NarrAttempt(r) ==
    /\ pc[r] = "narr"
    /\ Runs(r)
    /\ \E resp \in NarrResponses :
        LET text == StripFences(Strip(resp.text))
            parsed == loads(text)
        IN  /\ narr_response' = [narr_response EXCEPT ![r] = resp]
            /\ batches' = [batches EXCEPT ![r] =
                  IF resp.kind = "text" /\ resp.text # <<>> /\ parsed.ok
                     /\ ArgumentsError(parsed.value) = <<>>
                  THEN @ + 1 ELSE @]
            /\ IF resp.kind = "error"
               THEN /\ InnerExcept(r, resp.text, "error", oplog)
                    /\ UNCHANGED <<story_data, idx, img_attempt>>
               ELSE IF resp.kind = "none" \/ resp.text = <<>>
               THEN /\ IF AttemptsRemain(attempt[r])
                       THEN /\ pc' = [pc EXCEPT ![r] = "narr_sleep"]
                            /\ oplog' = Logged(oplog, r, "narr",
                                  <<CallEv("empty", FALSE), SleepEv(Delay(attempt[r]))>>)
                            /\ UNCHANGED <<story, result, via, exc>>
                       ELSE InnerExcept(r, NoContentText, "empty", oplog)
                    /\ UNCHANGED <<story_data, idx, img_attempt>>
               ELSE IF ~parsed.ok
               THEN /\ InnerExcept(r, parsed.err, "parse", oplog)
                    /\ UNCHANGED <<story_data, idx, img_attempt>>
               ELSE IF PreImagesError(parsed.value) # <<>>
               THEN /\ InnerExcept(r, PreImagesError(parsed.value),
                                   IF ArgumentsError(parsed.value) # <<>> THEN "shape"
                                   ELSE "images", oplog)
                    /\ UNCHANGED <<story_data, idx, img_attempt>>
               ELSE IF Len(parsed.value.imagePrompts) = 0
               THEN /\ AfterImages(r, parsed.value, <<>>, oplog)
                    /\ UNCHANGED <<story_data, idx, img_attempt>>
               ELSE /\ story_data' = [story_data EXCEPT ![r] = parsed.value]
                    /\ idx' = [idx EXCEPT ![r] = 1]
                    /\ img_attempt' = [img_attempt EXCEPT ![r] = 0]
                    /\ pc' = [pc EXCEPT ![r] = "img"]
                    /\ UNCHANGED <<story, result, via, exc, oplog>>
    /\ UNCHANGED <<API_INITIALIZED, loop, req, child_description, attempt, images,
                   img_fate>>
    /\ UNCHANGED persistence
    /\ UNCHANGED <<story_prompt, pauses>>

\* variant: after the sleep the loop starts again from its first attempt
NarrWake_Restart(r) ==
    /\ pc[r] = "narr_sleep"
    /\ Runs(r)
    /\ attempt' = [attempt EXCEPT ![r] = 0]
    /\ oplog' = Cleared(oplog, r, "narr")
    /\ pc' = [pc EXCEPT ![r] = "narr"]
    /\ UNCHANGED <<API_INITIALIZED, loop, req, child_description, story_data, idx,
                   img_attempt, images, img_fate, story, result, exc, via>>
    /\ UNCHANGED persistence
    /\ narr_response' = [narr_response EXCEPT ![r] = NoResponse]
    /\ UNCHANGED <<story_prompt, batches, pauses>>

\* generate_story: time.sleep(delay) returns, next iteration
NarrWake(r) ==
    /\ pc[r] = "narr_sleep"
    /\ Runs(r)
    /\ attempt' = [attempt EXCEPT ![r] = @ + 1]
    /\ pc' = [pc EXCEPT ![r] = "narr"]
    /\ oplog' = Settled(oplog, r, "narr")
    /\ UNCHANGED <<API_INITIALIZED, loop, req, child_description, story_data, idx,
                   img_attempt, images, img_fate, story, result, exc, via>>
    /\ UNCHANGED persistence
    /\ narr_response' = [narr_response EXCEPT ![r] = NoResponse]
    /\ UNCHANGED <<story_prompt, batches, pauses>>

\* generate_images: one iteration of the inner loop for prompt idx, up to
\* its backoff sleep or to the pause that follows the prompt
ImgAttempt(r) ==
    /\ pc[r] = "img"
    /\ Runs(r)
    /\ \E resp \in ImageResponses :
        LET step == ImageStep(img_attempt[r], resp, story_data[r].imagePrompts[idx[r]])
            out == IF resp.kind = "error" THEN "error"
                   ELSE IF resp.kind = "image" THEN "ok" ELSE "empty"
            sig == resp.kind = "error" /\ HasSignature(resp.text)
            fate == IF out = "ok" THEN "ok" ELSE IF sig THEN "quota" ELSE "failed"
        IN  IF step.next = "sleep"
            THEN /\ pc' = [pc EXCEPT ![r] = "img_sleep"]
                 /\ oplog' = Logged(oplog, r, "img", <<CallEv(out, sig), SleepEv(step.delay)>>)
                 /\ UNCHANGED <<images, img_fate, pauses>>
            ELSE /\ images' = [images EXCEPT ![r] =
                                IF step.next = "append" THEN Append(@, step.value) ELSE @]
                 /\ img_fate' = [img_fate EXCEPT ![r] = Append(@, fate)]
                 /\ pauses' = [pauses EXCEPT ![r] = @ \o PromptPause(fate)]
                 /\ pc' = [pc EXCEPT ![r] = "img_pause"]
                 /\ oplog' = Logged(oplog, r, "img", <<CallEv(out, sig)>>)
    /\ narr_response' = [narr_response EXCEPT ![r] = NoResponse]
    /\ UNCHANGED <<API_INITIALIZED, loop, req, child_description, attempt, story_data,
                   idx, img_attempt, story, result, exc, via>>
    /\ UNCHANGED persistence
    /\ UNCHANGED <<story_prompt, batches>>

\* generate_images: time.sleep(delay) returns, next iteration
ImgWake(r) ==
    /\ pc[r] = "img_sleep"
    /\ Runs(r)
    /\ img_attempt' = [img_attempt EXCEPT ![r] = @ + 1]
    /\ pc' = [pc EXCEPT ![r] = "img"]
    /\ oplog' = Settled(oplog, r, "img")
    /\ UNCHANGED <<API_INITIALIZED, loop, req, child_description, attempt, story_data,
                   idx, images, img_fate, story, result, exc, via>>
    /\ UNCHANGED persistence
    /\ UNCHANGED generation

\* generate_images: time.sleep(1) returns; next prompt, or return the list
\* to generate_story, which builds the Story
ImgPauseEnd(r) ==
    /\ pc[r] = "img_pause"
    /\ Runs(r)
    /\ IF idx[r] < Len(story_data[r].imagePrompts)
       THEN /\ idx' = [idx EXCEPT ![r] = @ + 1]
            /\ img_attempt' = [img_attempt EXCEPT ![r] = 0]
            /\ pc' = [pc EXCEPT ![r] = "img"]
            /\ oplog' = Cleared(oplog, r, "img")
            /\ UNCHANGED <<story_data, images, img_fate, story, result, exc, via, pauses>>
       ELSE /\ AfterImages(r, story_data[r], images[r], Cleared(oplog, r, "img"))
            /\ pauses' = [pauses EXCEPT ![r] = <<>>]
            /\ story_data' = [story_data EXCEPT ![r] = NoData]
            /\ images' = [images EXCEPT ![r] = <<>>]
            /\ img_fate' = [img_fate EXCEPT ![r] = <<>>]
            /\ idx' = [idx EXCEPT ![r] = 0]
            /\ img_attempt' = [img_attempt EXCEPT ![r] = 0]
    /\ UNCHANGED <<API_INITIALIZED, loop, req, child_description, attempt>>
    /\ UNCHANGED persistence
    /\ UNCHANGED <<story_prompt, narr_response, batches>>

\* variant: the except block re-raises instead of falling back
ProcessCatch_Reraise(r) ==
    /\ pc[r] = "raised"
    /\ Runs(r)
    /\ pc' = [pc EXCEPT ![r] = "failed"]
    /\ UNCHANGED <<API_INITIALIZED, loop, req, child_description, attempt, story_data,
                   idx, img_attempt, images, img_fate, story, result, exc, via, oplog>>
    /\ UNCHANGED persistence
    /\ UNCHANGED generation

\* process_story_request: the except block builds the fallback story
ProcessCatch(r) ==
    /\ pc[r] = "raised"
    /\ Runs(r)
    /\ Returns(r, Fallback(r, IF child_description[r] # <<>> THEN child_description[r]
                              ELSE DEFAULT_DESCRIPTION), "caught")
    /\ UNCHANGED <<API_INITIALIZED, loop, req, child_description, attempt, story_data,
                   idx, img_attempt, images, img_fate, oplog>>
    /\ UNCHANGED persistence
    /\ UNCHANGED generation

\* GeneratedStory(...) accepts the dict: title and moral are strings
GeneratedStoryValid(d) == d.title # None /\ d.moral # None

\* server.generate_story after process_story_request returned: it builds
\* the GeneratedStory, queues save_story_to_db and returns the response,
\* or answers 500 when building the document raises; the locals of the
\* request are gone
Respond(r) ==
    /\ pc[r] = "returned"
    /\ Runs(r)
    /\ loop' = {}
    /\ pc' = [pc EXCEPT ![r] = "done"]
    /\ IF GeneratedStoryValid(result[r])
       THEN /\ background_tasks' = background_tasks \cup {r}
            /\ response' = [response EXCEPT ![r] = "200"]
       ELSE /\ response' = [response EXCEPT ![r] = "500"]
            /\ UNCHANGED background_tasks
    /\ req' = [req EXCEPT ![r] = NoRequest]
    /\ child_description' = [child_description EXCEPT ![r] = <<>>]
    /\ attempt' = [attempt EXCEPT ![r] = 0]
    /\ story' = [story EXCEPT ![r] = NoStory]
    /\ result' = [result EXCEPT ![r] = to_dict(NoStory)]
    /\ exc' = [exc EXCEPT ![r] = <<>>]
    /\ via' = [via EXCEPT ![r] = "none"]
    /\ oplog' = [oplog EXCEPT ![r] = NoLog]
    /\ story_prompt' = [story_prompt EXCEPT ![r] = NoPrompt]
    /\ narr_response' = [narr_response EXCEPT ![r] = NoResponse]
    /\ batches' = [batches EXCEPT ![r] = 0]
    /\ pauses' = [pauses EXCEPT ![r] = <<>>]
    /\ UNCHANGED <<API_INITIALIZED, story_data, idx, img_attempt, images, img_fate,
                   db_stories, insert_log, retrieval>>

\* what db.stories.insert_one does: it stores the document, or raises
InsertOutcomes == {"ok", "error"}

\* variant: a failed insert leaves the task queued, and it runs again
SaveStory_RetryOnError(r) ==
    /\ r \in background_tasks
    /\ loop = {}
    /\ Len(insert_log[r]) < 2
    /\ \E outcome \in InsertOutcomes :
          /\ insert_log' = [insert_log EXCEPT ![r] = Append(@, outcome)]
          /\ db_stories' = IF outcome = "ok" THEN db_stories \cup {r} ELSE db_stories
          /\ background_tasks' =
                IF outcome = "ok" THEN background_tasks \ {r} ELSE background_tasks
    /\ UNCHANGED <<API_INITIALIZED, loop, pc, req, child_description, attempt, story_data,
                   idx, img_attempt, images, img_fate, story, result, exc, via, oplog,
                   response, retrieval>>
    /\ UNCHANGED generation

\* save_story_to_db, run by the server after the response was sent: one
\* insert_one, whose exception is logged and goes no further
SaveStory(r) ==
    /\ r \in background_tasks
    /\ loop = {}
    /\ \E outcome \in InsertOutcomes :
          /\ insert_log' = [insert_log EXCEPT ![r] = Append(@, outcome)]
          /\ db_stories' = IF outcome = "ok" THEN db_stories \cup {r} ELSE db_stories
    /\ background_tasks' = background_tasks \ {r}
    /\ UNCHANGED <<API_INITIALIZED, loop, pc, req, child_description, attempt, story_data,
                   idx, img_attempt, images, img_fate, story, result, exc, via, oplog,
                   response, retrieval>>
    /\ UNCHANGED generation

\* a step of the handler of request r
RequestStep(r) ==
    \/ Start(r)
    \/ PhotoAttempt(r)
    \/ PhotoWake(r)
    \/ StoryStart(r)
    \/ NarrAttempt(r)
    \/ NarrWake(r)
    \/ ImgAttempt(r)
    \/ ImgWake(r)
    \/ ImgPauseEnd(r)
    \/ ProcessCatch(r)
    \/ Respond(r)

Next == \E r \in Requests : RequestStep(r) \/ SaveStory(r)

Spec == Init /\ [][Next]_vars

\* the server with every request of Requests in flight
InitServer == InitWith(Requests)

SpecServer == InitServer /\ [][Next]_vars

\* a handler that has started is run to its end by the event loop, and
\* every backend call and every sleep returns
SpecLive == Spec /\ \A r \in Requests : WF_vars(RequestStep(r))

(* --------------------- create_fallback_story alone --------------------- *)

\* the arguments create_fallback_story is called with
FallbackThemeInputs == FallbackThemes \cup {"custom", "jungle"}

FallbackLengthInputs == {"short", "medium", "long", "epic"}

\* story_type, special_ingredients and child_description of a call
FallbackOtherInputs ==
    {[story_type |-> "adventure", special_ingredients |-> "", description |-> DEFAULT_DESCRIPTION],
     [story_type |-> "bedtime", special_ingredients |-> "a red kite",
      description |-> <<"A child with curly hair.">>]}

\* variant: the templates are kept between calls and the lists of a
\* returned story are the template's own, so that a call that appends
\* filler to them also lengthens the story an earlier call has returned
FallbackCall_SharedTemplates(r) ==
    /\ pc[r] = "fallback_pending"
    /\ \E kid \in KidNames, th \in FallbackThemeInputs, len \in FallbackLengthInputs,
          o \in FallbackOtherInputs :
          LET new == create_fallback_story(kid, th, o.story_type, len,
                                           o.special_ingredients, o.description)
          IN  /\ req' = [req EXCEPT ![r] =
                        [kid_name |-> kid, theme |-> th, story_type |-> o.story_type,
                         story_length |-> len, special_ingredients |-> o.special_ingredients,
                         age_level |-> "3-5"]]
              /\ child_description' = [child_description EXCEPT ![r] = o.description]
              /\ story' = [q \in Requests |->
                            IF q = r THEN new
                            ELSE IF /\ pc[q] = "fallback_returned"
                                    /\ story[q].title = new.title
                                    /\ Len(story[q].story) < Len(new.story)
                                 THEN new
                                 ELSE story[q]]
    /\ pc' = [pc EXCEPT ![r] = "fallback_returned"]
    /\ UNCHANGED <<API_INITIALIZED, loop, attempt, story_data, idx, img_attempt, images,
                   img_fate, result, exc, via, oplog>>
    /\ UNCHANGED persistence
    /\ UNCHANGED generation

\* a caller awaits create_fallback_story, which runs to its return
FallbackCall(r) ==
    /\ pc[r] = "fallback_pending"
    /\ \E kid \in KidNames, th \in FallbackThemeInputs, len \in FallbackLengthInputs,
          o \in FallbackOtherInputs :
          /\ req' = [req EXCEPT ![r] =
                    [kid_name |-> kid, theme |-> th, story_type |-> o.story_type,
                     story_length |-> len, special_ingredients |-> o.special_ingredients,
                     age_level |-> "3-5"]]
          /\ child_description' = [child_description EXCEPT ![r] = o.description]
          /\ story' = [story EXCEPT ![r] =
                    create_fallback_story(kid, th, o.story_type, len,
                                          o.special_ingredients, o.description)]
    /\ pc' = [pc EXCEPT ![r] = "fallback_returned"]
    /\ UNCHANGED <<API_INITIALIZED, loop, attempt, story_data, idx, img_attempt, images,
                   img_fate, result, exc, via, oplog>>
    /\ UNCHANGED persistence
    /\ UNCHANGED generation

NextFallback == \E r \in Requests : FallbackCall(r)

InitFallback ==
    /\ InitAt([r \in Requests |-> "fallback_pending"])
    /\ db_stories = {}

\* create_fallback_story called by every r of Requests, in any order
SpecFallback == InitFallback /\ [][NextFallback]_vars

(* ------------------------------ retrieval ------------------------------ *)

\* what find_one does: it answers (with the document or with None), or it
\* raises
FindOutcomes == {"answer", "error"}

DbErrorText == <<"connection refused">>

\* str(e) of the HTTPException raised for a missing story: the status and
\* the detail, or the empty string, with the version of the framework
HTTPExceptionTexts == {<<"404: Story not found">>, <<>>}

\* f"Failed to retrieve story: {str(e)}"
RetrieveFailedText(e) == <<"Failed to retrieve story: ">> \o e

\* server.get_story, from the request to its answer: find_one, then the
\* StoryResponse of the document; the HTTPException raised inside the try
\* for a missing document is caught by the except clause of the same try,
\* as is an exception of find_one, and answered with status 500
GetStory(id) ==
    /\ loop = {}
    /\ \E found \in FindOutcomes :
          IF found = "error"
          THEN retrieval' = [retrieval EXCEPT ![id] =
                   Retrieval("error", "500", RetrieveFailedText(DbErrorText))]
          ELSE IF id \in db_stories
          THEN retrieval' = [retrieval EXCEPT ![id] = Retrieval("found", "200", <<>>)]
          ELSE \E e \in HTTPExceptionTexts :
                  retrieval' = [retrieval EXCEPT ![id] =
                      Retrieval("missing", "500", RetrieveFailedText(e))]
    /\ UNCHANGED <<API_INITIALIZED, loop, pc, req, child_description, attempt, story_data,
                   idx, img_attempt, images, img_fate, story, result, exc, via, oplog,
                   response, background_tasks, db_stories, insert_log>>
    /\ UNCHANGED generation

NextRetrieve == \E id \in StoryIds : GetStory(id)

\* the server at rest, with the stories that earlier requests have stored
InitRetrieve ==
    /\ InitAt([r \in Requests |-> "absent"])
    /\ db_stories \in SUBSET Requests

\* GET /stories/{story_id} for every id, in any order
SpecRetrieve == InitRetrieve /\ [][NextRetrieve]_vars

(* ============================== claims ================================= *)

Last(log) == log[Len(log)]

IsCall(e) == e.ev = "call"

IsSleep(e) == e.ev = "sleep"

NumCalls(log) == Len(SelectSeq(log, IsCall))

\* some call of the log failed with a quota signature
HadQuota(log) == \E i \in 1..Len(log) : IsCall(log[i]) /\ log[i].sig

\* the log ends with a call that failed with a quota signature
EndedByQuota(log) == Len(log) > 0 /\ IsCall(Last(log)) /\ Last(log).sig

\* the log ends with a successful call
Succeeded(log) == Len(log) > 0 /\ IsCall(Last(log)) /\ Last(log).out = "ok"

DocumentFields == {"title", "moral", "story", "imagePrompts", "images"}

IsDocument(d) ==
    /\ DOMAIN d = DocumentFields
    /\ d.title # ""
    /\ d.moral # ""
    /\ DOMAIN d.story = 1..Len(d.story)
    /\ DOMAIN d.imagePrompts = 1..Len(d.imagePrompts)
    /\ DOMAIN d.images = 1..Len(d.images)

ControlPoints ==
    {"absent", "pending", "photo", "photo_sleep", "photo_ret", "narr", "narr_sleep",
     "img", "img_sleep", "img_pause", "raised", "returned", "done"}

\* C1: process_story_request never raises because of the backend: whatever
\* the backend does, and when it was never initialized, an exception that
\* generate_story raises is caught inside process_story_request, and what
\* process_story_request returns is a document with the fields title,
\* moral, story, imagePrompts and images.
C1_NeverRaises ==
    \A r \in Requests :
        /\ pc[r] \in ControlPoints
        /\ pc[r] = "raised" => Runs(r) /\ API_INITIALIZED
        /\ pc[r] = "returned" =>
              /\ IsDocument(result[r])
              /\ via[r] \in {"uninit", "live", "quota", "caught"}
              /\ ~API_INITIALIZED => via[r] = "uninit"

C1_Witness ==
    \E r \in Requests :
        pc[r] = "returned" /\ via[r] = "caught" /\ IsDocument(result[r])

Sleeping(r) == pc[r] \in {"photo_sleep", "narr_sleep", "img_sleep", "img_pause"}

InFlight(r) == pc[r] \notin {"absent", "done"}

\* C2: while one request is inside a backoff sleep or inside the pause
\* between illustrations, every other request in flight can take a step.
C2_SleepDoesNotBlock ==
    \A r, q \in Requests :
        (r # q /\ Sleeping(r) /\ InFlight(q)) => ENABLED RequestStep(q)

QuotaIsLast(log) == \A i \in 1..Len(log) : (IsCall(log[i]) /\ log[i].sig) => i = Len(log)

\* C3: at each of the three call sites, once an attempt fails with an error
\* whose text contains 429 or quota (any letter case), that operation makes
\* no further attempt and performs no backoff sleep: the failed call is the
\* last event of the operation and the operation is over.
C3_QuotaStopsRetry ==
    \A r \in Requests :
        /\ \A site \in Sites : QuotaIsLast(oplog[r][site])
        /\ HadQuota(oplog[r].photo) => pc[r] = "photo_ret"
        /\ HadQuota(oplog[r].narr) => pc[r] = "returned"
        /\ HadQuota(oplog[r].img) => pc[r] = "img_pause"

C3_Witness ==
    \E r \in Requests :
        pc[r] = "img_pause" /\ EndedByQuota(oplog[r].img) /\ Len(oplog[r].img) = 3

\* k failed calls, each followed by its backoff sleep of 2 then 4, then the
\* successful call
BackoffThenSuccess(log) ==
    LET k == (Len(log) - 1) \div 2
    IN  /\ Len(log) = 2 * k + 1
        /\ k < 3
        /\ \A j \in 1..k :
              /\ IsCall(log[2 * j - 1]) /\ log[2 * j - 1].out # "ok"
              /\ IsSleep(log[2 * j]) /\ log[2 * j].d = (IF j = 1 THEN 2 ELSE 4)
        /\ NumCalls(log) = k + 1

\* C4: an operation that fails k < 3 times without a quota signature and
\* then succeeds yields the success value, and exactly k backoff sleeps
\* occur, of 2 then 4, each between the failed attempt and the next one.
C4_BackoffThenSuccess ==
    \A r \in Requests :
        /\ Succeeded(oplog[r].photo) =>
              /\ BackoffThenSuccess(oplog[r].photo)
              /\ pc[r] = "photo_ret"
              /\ child_description[r] \in {<<>>, <<"A child with curly hair.">>}
        /\ Succeeded(oplog[r].narr) =>
              /\ BackoffThenSuccess(oplog[r].narr)
              /\ pc[r] = "returned" /\ via[r] = "live"
              /\ story[r].title = "Model Title" /\ story[r].story = ModelStory(2)
        /\ Succeeded(oplog[r].img) =>
              /\ BackoffThenSuccess(oplog[r].img)
              /\ pc[r] = "img_pause"
              /\ images[r][idx[r]] =
                    ImageOf(EnhancedPrompt(story_data[r].imagePrompts[idx[r]]))

C4_Witness ==
    \E r \in Requests :
        /\ pc[r] = "photo_ret" /\ Succeeded(oplog[r].photo) /\ Len(oplog[r].photo) = 5
        /\ child_description[r] = <<"A child with curly hair.">>

\* the texts a failure of the given kind can have when it carries no quota
\* signature
FailureTexts(out) ==
    CASE out = "error" -> BackendErrors \ QuotaSignatureTexts
      [] out = "empty" -> {NoContentText}
      [] out = "parse" -> {JSONDecodeErrorText(p) : p \in 0..9}
      [] out = "shape" ->
            {KeyErrorText("imagePrompts"), KeyErrorText("story"), NotSubscriptableText}
      [] out = "images" -> {NoLenText}
      [] out = "shape_after" -> {KeyErrorText("title"), KeyErrorText("moral")}
      [] OTHER -> {}

\* C5: when every narrative attempt fails without a quota signature,
\* generate_story has made exactly 3 narrative calls and slept exactly
\* twice, 2 then 4 and not after the last attempt, when it raises; the
\* error carries the text of the last failure and no story is returned.
C5_ExhaustedRaises ==
    \A r \in Requests :
        pc[r] = "raised" =>
            LET log == oplog[r].narr
            IN  /\ Len(log) = 5
                /\ \A i \in {1, 3, 5} : IsCall(log[i]) /\ log[i].out # "ok" /\ ~log[i].sig
                /\ IsSleep(log[2]) /\ log[2].d = 2
                /\ IsSleep(log[4]) /\ log[4].d = 4
                /\ \E e \in FailureTexts(log[5].out) :
                      exc[r] = <<"Failed to generate story after ", "3", " attempts: ">> \o e
                /\ story[r] = NoStory /\ via[r] = "none"

C5_Witness ==
    \E r \in Requests :
        pc[r] = "raised" /\ Len(oplog[r].narr) = 5 /\ Last(oplog[r].narr).out = "parse"

\* C6: a narrative response that fails JSON parsing never routes to the
\* fallback provider directly: it consumes one attempt of the budget of 3,
\* and while attempts remain a backoff sleep and another call follow, so a
\* parse failure is the last event only of the third attempt.
C6_ParseFailureIsRetried ==
    \A r \in Requests :
        LET log == oplog[r].narr
        IN  (Len(log) > 0 /\ IsCall(Last(log)) /\ Last(log).out = "parse") =>
                /\ via[r] # "quota"
                /\ Len(log) = 5

\* C7: when a narrative attempt (1st, 2nd or 3rd) fails with a quota
\* signature, generate_story returns without raising exactly the document
\* create_fallback_story produces for the same kid_name, theme and
\* story_length, and the request makes no further backend call: it is at
\* its return.
C7_NarrativeQuotaFallsBack ==
    \A r \in Requests :
        HadQuota(oplog[r].narr) =>
            /\ EndedByQuota(oplog[r].narr)
            /\ pc[r] = "returned" /\ via[r] = "quota" /\ exc[r] = <<>>
            /\ story[r] = create_fallback_story(req[r].kid_name, req[r].theme, "",
                                                req[r].story_length, "", <<>>)
            /\ Len(story[r].story) = (CASE req[r].story_length = "short" -> 6
                                        [] req[r].story_length = "long" -> 12
                                        [] OTHER -> 8)
            /\ \A i \in 1..Len(story[r].images) : story[r].images[i] = None
            /\ result[r] = to_dict(story[r])

C7_Witness ==
    \E r \in Requests :
        /\ EndedByQuota(oplog[r].narr) /\ Len(oplog[r].narr) = 5
        /\ pc[r] = "returned" /\ via[r] = "quota"

InImages(r) == pc[r] \in {"img", "img_sleep", "img_pause"}

\* C8: generate_images appends exactly one entry per prompt whatever the
\* outcomes: while prompt idx is in progress the list holds idx - 1
\* entries, after it idx entries; entry i is the image of prompt i or null
\* when prompt i failed, and the list handed back has the length of the
\* prompt list.
C8_OneEntryPerPrompt ==
    \A r \in Requests :
        /\ pc[r] \in {"img", "img_sleep"} => Len(images[r]) = idx[r] - 1
        /\ pc[r] = "img_pause" => Len(images[r]) = idx[r]
        /\ InImages(r) =>
              /\ idx[r] \in 1..Len(story_data[r].imagePrompts)
              /\ Len(img_fate[r]) = Len(images[r])
              /\ \A i \in 1..Len(images[r]) :
                    images[r][i] =
                        IF img_fate[r][i] = "ok"
                        THEN ImageOf(EnhancedPrompt(story_data[r].imagePrompts[i]))
                        ELSE None
        /\ via[r] = "live" =>
              /\ Len(story[r].images) = Len(story[r].imagePrompts)
              /\ \A i \in 1..Len(story[r].images) :
                    story[r].images[i] \in
                        {None, ImageOf(EnhancedPrompt(story[r].imagePrompts[i]))}

C8_Witness ==
    \E r \in Requests :
        /\ via[r] = "live" /\ Len(story[r].images) = 3
        /\ story[r].images[1] = None /\ story[r].images[2] # None
        /\ story[r].images[3] = None

\* C9: a quota-signature error on prompt i records null at position i after
\* that single attempt, and the next prompt is then attempted with a fresh
\* budget; with 4 prompts of which only prompt 2 fails with a quota
\* signature the list is [img, null, img, img].
C9_QuotaNullsOnePosition ==
    /\ [](\A r \in Requests :
            /\ HadQuota(oplog[r].img) =>
                  /\ EndedByQuota(oplog[r].img)
                  /\ pc[r] = "img_pause"
                  /\ images[r][idx[r]] = None
                  /\ img_fate[r][idx[r]] = "quota"
            /\ (pc[r] = "img" /\ oplog[r].img = <<>>) => img_attempt[r] = 0
            /\ (pc[r] = "img_pause" /\ img_fate[r] = <<"ok", "quota", "ok", "ok">>) =>
                  images[r] = <<ImageOf(EnhancedPrompt("model prompt 1")), None,
                                ImageOf(EnhancedPrompt("model prompt 3")),
                                ImageOf(EnhancedPrompt("model prompt 4"))>>)
    /\ [][\A r \in Requests :
            (pc[r] = "img_pause" /\ img_fate[r][idx[r]] = "quota"
                /\ idx[r] < Len(story_data[r].imagePrompts)) =>
                  /\ pc'[r] = "img" /\ idx'[r] = idx[r] + 1 /\ img_attempt'[r] = 0
                  /\ oplog'[r].img = <<>> /\ images'[r] = images[r]]_vars

C9_Witness ==
    \E r \in Requests :
        /\ pc[r] = "img_pause" /\ Len(story_data[r].imagePrompts) = 4
        /\ img_fate[r] = <<"ok", "quota", "ok", "ok">>
        /\ images[r][2] = None /\ images[r][4] # None

\* C10: in generate_images a response with no inline payload is a failed
\* attempt that is retried after a backoff sleep; when all 3 attempts of a
\* prompt give no payload or a non-quota error the position becomes null
\* and the batch goes on with the next prompt.
C10_NoPayloadIsRetried ==
    /\ [](\A r \in Requests :
            LET log == oplog[r].img
            IN  /\ pc[r] = "img_sleep" =>
                      /\ Len(log) = 2 * (img_attempt[r] + 1)
                      /\ img_attempt[r] < 2
                      /\ IsCall(log[Len(log) - 1])
                      /\ log[Len(log) - 1].out \in {"empty", "error"}
                      /\ ~log[Len(log) - 1].sig
                      /\ IsSleep(Last(log)) /\ Last(log).d = (IF img_attempt[r] = 0 THEN 2 ELSE 4)
                /\ (pc[r] = "img_pause" /\ Last(log).out \in {"empty", "error"}
                        /\ ~Last(log).sig) =>
                      /\ NumCalls(log) = 3 /\ Len(log) = 5
                      /\ images[r][idx[r]] = None
                      /\ img_fate[r][idx[r]] = "failed")
    /\ [][\A r \in Requests :
            (pc[r] = "img_pause" /\ img_fate[r][idx[r]] = "failed"
                /\ idx[r] < Len(story_data[r].imagePrompts)) =>
                  /\ pc'[r] = "img" /\ idx'[r] = idx[r] + 1 /\ img_attempt'[r] = 0
                  /\ images'[r] = images[r]]_vars

C10_Witness ==
    \E r \in Requests :
        /\ pc[r] = "img" /\ idx[r] = 2 /\ img_fate[r] = <<"failed">>
        /\ images[r] = <<None>>

\* C11: for every theme, known or not, and story_length short, medium or
\* long, create_fallback_story returns (it has no raising path) a story of
\* 6, 8 or 12 sentences, with len(story) // 2 image prompts, as many images
\* as image prompts, and every image None.
C11_FallbackShape ==
    \A r \in Requests :
        /\ pc[r] \in {"fallback_pending", "fallback_returned"}
        /\ pc[r] = "fallback_pending" => ENABLED FallbackCall(r)
        /\ (pc[r] = "fallback_returned"
                /\ req[r].story_length \in {"short", "medium", "long"}) =>
              /\ Len(story[r].story) =
                    (CASE req[r].story_length = "short" -> 6
                       [] req[r].story_length = "medium" -> 8
                       [] req[r].story_length = "long" -> 12)
              /\ Len(story[r].imagePrompts) = Len(story[r].story) \div 2
              /\ Len(story[r].images) = Len(story[r].imagePrompts)
              /\ \A i \in 1..Len(story[r].images) : story[r].images[i] = None

C11_Witness ==
    \E r \in Requests :
        /\ pc[r] = "fallback_returned"
        /\ req[r].theme = "custom" /\ req[r].story_length = "long"
        /\ Len(story[r].story) = 12 /\ Len(story[r].images) = 6

\* C12: when the backend was never initialized, process_story_request
\* makes no backend call and performs no sleep: it returns at once the
\* document of create_fallback_story for the request with the default
\* description; for Mia, space, short the title is Mia's Cosmic Journey,
\* the story has 6 sentences and every image is null.
C12_UninitializedFallsBack ==
    \A r \in Requests :
        ~API_INITIALIZED =>
            /\ pc[r] \in {"absent", "pending", "returned", "done"}
            /\ oplog[r] = NoLog
            /\ pc[r] = "returned" =>
                  /\ via[r] = "uninit"
                  /\ result[r] =
                        to_dict(create_fallback_story(req[r].kid_name, req[r].theme,
                                    req[r].story_type, req[r].story_length,
                                    req[r].special_ingredients, DEFAULT_DESCRIPTION))
                  /\ (req[r].kid_name = "Mia" /\ req[r].theme = "space"
                          /\ req[r].story_length = "short") =>
                        /\ result[r].title = "Mia's Cosmic Journey"
                        /\ Len(result[r].story) = 6
                        /\ \A i \in 1..Len(result[r].images) : result[r].images[i] = None

C12_Witness ==
    \E r \in Requests :
        /\ ~API_INITIALIZED /\ pc[r] = "returned"
        /\ req[r].kid_name = "Mia" /\ req[r].theme = "space"
        /\ req[r].story_length = "short"
        /\ result[r].title = "Mia's Cosmic Journey" /\ Len(result[r].images) = 3

\* C14: analyze_photo never raises and the request goes on to the
\* narrative: without a client, and on a photo that cannot be decoded (no
\* backend call is made then), after a quota-signature error, and after 3
\* attempts without a text, it returns exactly the default description;
\* from its return the request enters generate_story.
C14_PhotoFailureGivesDefault ==
    /\ [](/\ \A ok \in BOOLEAN : AnalyzeEntry(FALSE, ok) = "default"
          /\ \A r \in Requests :
                /\ pc[r] \in {"photo", "photo_sleep"} => child_description[r] = <<>>
                /\ pc[r] = "photo_ret" =>
                      LET log == oplog[r].photo
                      IN  /\ ~Succeeded(log) => child_description[r] = DEFAULT_DESCRIPTION
                          /\ ~Succeeded(log) =>
                                \/ log = <<>>
                                \/ EndedByQuota(log)
                                \/ NumCalls(log) = 3 /\ Len(log) = 5
                          /\ ENABLED StoryStart(r))
    /\ [][\A r \in Requests :
            (pc[r] = "photo_ret" /\ pc'[r] # pc[r]) =>
                /\ pc'[r] = "narr"
                /\ child_description'[r] = child_description[r]]_vars

C14_Witness ==
    \E r \in Requests :
        /\ pc[r] = "photo_ret" /\ NumCalls(oplog[r].photo) = 3
        /\ ~Succeeded(oplog[r].photo) /\ ~HadQuota(oplog[r].photo)
        /\ child_description[r] = DEFAULT_DESCRIPTION

\* C15: the description analyze_photo returns is never the empty string,
\* whether the response text is absent, empty, blank or not.
C15_DescriptionNeverEmpty ==
    \A r \in Requests : pc[r] = "photo_ret" => child_description[r] # <<>>

\* an attempt of the narrative failed after generate_images had returned:
\* the illustration backend was called for the prompts of that attempt
IllustrationsRan(log) ==
    \E i \in 1..Len(log) : IsCall(log[i]) /\ log[i].out = "shape_after"

\* C13: the illustration backend is called only on the path that returns
\* the live story: a request that returns fallback content has made no
\* illustration call.
C13_FallbackWithoutIllustration ==
    \A r \in Requests :
        (pc[r] = "returned" /\ via[r] \in {"uninit", "quota", "caught"}) =>
            ~IllustrationsRan(oplog[r].narr)

Started(r) ==
    pc[r] \in {"photo", "photo_sleep", "photo_ret", "narr", "narr_sleep", "img",
               "img_sleep", "img_pause", "raised"}

\* C16: every process_story_request that has started leaves its loops:
\* it is eventually no longer between its start and its return, the only
\* way out is the return, and what it returns is a document (the live
\* story, or the fallback story after a quota error or after the attempts
\* are exhausted), given that every backend call and every sleep returns.
C16_RequestCompletes ==
    /\ [](\A r \in Requests :
            pc[r] = "returned" =>
                IsDocument(result[r]) /\ via[r] \in {"uninit", "live", "quota", "caught"})
    /\ [][\A r \in Requests :
            (Started(r) /\ pc'[r] # pc[r]) =>
                pc'[r] \in {"photo", "photo_sleep", "photo_ret", "narr", "narr_sleep",
                            "img", "img_sleep", "img_pause", "raised", "returned"}]_vars
    /\ <>[](\A r \in Requests : ~Started(r))

C16_Witness ==
    \E r \in Requests :
        /\ pc[r] = "returned" /\ via[r] = "live" /\ IsDocument(result[r])
        /\ NumCalls(oplog[r].narr) = 3 /\ Len(result[r].images) = MaxPrompts

\* the template a theme selects, forest for a theme without a template
TemplateOf(theme) == IF theme \in FallbackThemes THEN theme ELSE "forest"

\* 6, 8 or 12 sentences, 8 for a length that is none of the three
LengthOf(story_length) ==
    IF story_length = "short" THEN 6 ELSE IF story_length = "long" THEN 12 ELSE 8

\* the document the three inputs determine: the first sentences and
\* prompts of the template, then filler when the template is too short
ShapedTemplate(kid_name, theme, story_length) ==
    LET t == TemplateOf(theme)
        n == LengthOf(story_length)
    IN  [title |-> TemplateTitle(t, kid_name),
         moral |-> TemplateMoral(t),
         story |-> [i \in 1..n |-> IF i <= 8 THEN TemplateStory(t, kid_name)[i]
                                   ELSE FillerSentence(kid_name)],
         imagePrompts |-> [i \in 1..(n \div 2) |->
                              IF i <= 4 THEN TemplatePrompts(t, kid_name)[i]
                              ELSE FillerPrompt(kid_name, t)],
         images |-> [i \in 1..(n \div 2) |-> None]]

FallbackReturned(r) == pc[r] = "fallback_returned"

\* C17: what create_fallback_story returns is determined by kid_name, theme
\* and story_length alone: it is the same for every story_type,
\* special_ingredients and child_description, two calls with the same three
\* inputs return the same document, and a call, whether it truncates or
\* pads, leaves what any other call has returned or will return as it is.
C17_FallbackIsStateless ==
    /\ [](\A r \in Requests :
            FallbackReturned(r) =>
                /\ story[r] = ShapedTemplate(req[r].kid_name, req[r].theme,
                                             req[r].story_length)
                /\ \A q \in Requests :
                      (/\ FallbackReturned(q)
                       /\ req[q].kid_name = req[r].kid_name
                       /\ req[q].theme = req[r].theme
                       /\ req[q].story_length = req[r].story_length) =>
                          story[q] = story[r])
    /\ [][\A r \in Requests :
            FallbackReturned(r) => story'[r] = story[r] /\ req'[r] = req[r]]_vars

C17_Witness ==
    \E r, q \in Requests :
        /\ FallbackReturned(r) /\ FallbackReturned(q)
        /\ req[r].theme = "ocean" /\ req[q].theme = "ocean"
        /\ req[r].story_length = "short" /\ req[q].story_length = "long"
        /\ child_description[r] # child_description[q]
        /\ req[r].special_ingredients # req[q].special_ingredients
        /\ Len(story[r].story) = 6 /\ Len(story[q].story) = 12
        /\ story[q].story[7] = TemplateStory("ocean", "Mia")[7]

\* C18: generate_images never raises, whatever generate_story hands it as
\* prompts, a value that is not a list included, and whatever the backend
\* does: no attempt of the narrative fails with an exception that comes
\* out of generate_images.
C18_ImagesNeverRaises ==
    \A r \in Requests :
        \A i \in 1..Len(oplog[r].narr) :
            IsCall(oplog[r].narr[i]) => oplog[r].narr[i].out # "images"

\* the images the illustration backend can return for the prompts of a
\* narrative response
KnownImages == {ImageOf(EnhancedPrompt(ModelPrompts(MaxPrompts)[i])) : i \in 1..MaxPrompts}

\* base64.b64decode: the bytes whose encoding is the text
B64Decode(text) == CHOOSE img \in KnownImages : B64Encode(img) = text

\* C20: to_dict keeps order and position: title, moral, story and
\* imagePrompts come out as they are, the images list keeps its length,
\* entry i of the output is null exactly when image i of the Story is
\* null, and decoding the other entries gives back the images of the
\* Story, each at its position.
C20_ToDictRoundTrip ==
    \A r \in Requests :
        pc[r] = "returned" =>
            LET s == story[r]
                d == result[r]
            IN  /\ d.title = s.title /\ d.moral = s.moral
                /\ d.story = s.story
                /\ d.imagePrompts = s.imagePrompts
                /\ Len(d.images) = Len(s.images)
                /\ \A i \in 1..Len(s.images) :
                      /\ d.images[i] = None <=> s.images[i] = None
                      /\ d.images[i] # None =>
                            /\ d.images[i] # s.images[i]
                            /\ B64Decode(d.images[i]) = s.images[i]

C20_Witness ==
    \E r \in Requests :
        /\ pc[r] = "returned" /\ via[r] = "live"
        /\ Len(story[r].images) = 2
        /\ story[r].images[1] # None /\ story[r].images[2] = None
        /\ result[r].images[1] = B64Encode(story[r].images[1])
        /\ result[r].images[2] = None

\* C19: the insert of a story is queued only by the step that has built
\* the document and answers 200; it is attempted at most once, after the
\* response; a failing insert stores nothing, is only recorded, leaves
\* the response as it was sent, and is not tried again.
C19_PersistenceFireAndForget ==
    /\ [](\A r \in Requests :
            /\ r \in background_tasks => pc[r] = "done" /\ response[r] = "200"
            /\ insert_log[r] # <<>> =>
                  /\ Len(insert_log[r]) = 1
                  /\ r \notin background_tasks
                  /\ pc[r] = "done" /\ response[r] = "200"
            /\ r \in db_stories <=> insert_log[r] = <<"ok">>
            /\ response[r] = "500" => r \notin background_tasks /\ insert_log[r] = <<>>)
    /\ [][\A r \in Requests :
            /\ (r \notin background_tasks /\ r \in background_tasks') =>
                  /\ pc[r] = "returned" /\ pc'[r] = "done"
                  /\ IsDocument(result[r]) /\ result[r].moral # None
                  /\ insert_log[r] = <<>>
            /\ insert_log'[r] # insert_log[r] =>
                  /\ r \in background_tasks
                  /\ response'[r] = response[r] /\ pc' = pc /\ loop' = loop
            /\ response[r] # "none" => response'[r] = response[r]]_vars

C19_Witness ==
    \E r \in Requests :
        /\ insert_log[r] = <<"error">> /\ response[r] = "200"
        /\ r \notin db_stories /\ r \notin background_tasks

KnownLengths == {"short", "medium", "long"}

FellBack(r) == pc[r] = "returned" /\ via[r] \in {"uninit", "quota", "caught"}

\* C21: for a request whose story_length is none of short, medium and
\* long, the prompt that generate_story builds asks for exactly 8 sentences
\* and 4 image prompts, and the document of create_fallback_story has 8
\* sentences and 4 image prompts.
C21_UnknownLengthIsEight ==
    \A r \in Requests :
        (req[r] # NoRequest /\ req[r].story_length \notin KnownLengths) =>
            /\ story_prompt[r] # NoPrompt =>
                  /\ story_prompt[r].sentences = <<"8">>
                  /\ story_prompt[r].prompts = <<"4">>
            /\ FellBack(r) =>
                  /\ Len(story[r].story) = 8
                  /\ Len(story[r].imagePrompts) = 4
                  /\ Len(result[r].story) = 8

C21_Witness ==
    \E r \in Requests :
        /\ req[r].story_length = "epic"
        /\ story_prompt[r].sentences = <<"8">>
        /\ FellBack(r) /\ via[r] = "quota"
        /\ Len(story[r].story) = 8 /\ Len(story[r].imagePrompts) = 4

\* C22: for a theme that is none of forest, space, ocean, kingdom and
\* dinosaur, custom included, create_fallback_story returns the title, the
\* moral, the sentences and the image prompts of the forest template,
\* shaped to the requested length; the filler prompts name the forest too.
C22_UnknownThemeIsForest ==
    \A r \in Requests :
        (FallbackReturned(r) /\ req[r].theme \notin FallbackThemes) =>
            /\ story[r].title = req[r].kid_name \o "'s Magical Forest Adventure"
            /\ story[r].moral = "Kindness to nature brings unexpected friends and rewards."
            /\ story[r] = ShapedTemplate(req[r].kid_name, "forest", req[r].story_length)
            /\ \A i \in 1..Min(8, Len(story[r].story)) :
                  story[r].story[i] = TemplateStory("forest", req[r].kid_name)[i]
            /\ \A i \in 1..Min(4, Len(story[r].imagePrompts)) :
                  story[r].imagePrompts[i] = TemplatePrompts("forest", req[r].kid_name)[i]

C22_Witness ==
    \E r, q \in Requests :
        /\ FallbackReturned(r) /\ req[r].theme = "custom"
        /\ story[r].title = "Mia's Magical Forest Adventure"
        /\ FallbackReturned(q) /\ req[q].theme = "jungle" /\ req[q].story_length = "long"
        /\ story[q].imagePrompts[6] =
              "Mia having a wonderful adventure in a magical forest setting."

IsPrefix(xs, ys) ==
    Len(xs) <= Len(ys) /\ \A i \in 1..Len(xs) : xs[i] = ys[i]

\* C23: for the length medium, and for a length that is none of the
\* three, create_fallback_story returns the 8 sentences and the 4 prompts
\* of the template as they are; for short, the first 6 sentences and the
\* first 3 prompts of the template; for long, the whole template followed
\* by filler entries only.
C23_ShapingKeepsTemplate ==
    \A r \in Requests :
        FallbackReturned(r) =>
            LET kid == req[r].kid_name
                t == TemplateOf(req[r].theme)
                S == TemplateStory(t, kid)
                P == TemplatePrompts(t, kid)
                len == req[r].story_length
            IN  /\ len \notin {"short", "long"} =>
                      story[r].story = S /\ story[r].imagePrompts = P
                /\ len = "short" =>
                      /\ Len(story[r].story) = 6 /\ IsPrefix(story[r].story, S)
                      /\ Len(story[r].imagePrompts) = 3
                      /\ IsPrefix(story[r].imagePrompts, P)
                /\ len = "long" =>
                      /\ Len(story[r].story) = 12 /\ IsPrefix(S, story[r].story)
                      /\ \A i \in 9..12 : story[r].story[i] = FillerSentence(kid)
                      /\ Len(story[r].imagePrompts) = 6
                      /\ IsPrefix(P, story[r].imagePrompts)
                      /\ \A i \in 5..6 : story[r].imagePrompts[i] = FillerPrompt(kid, t)

C23_Witness ==
    \E r, q \in Requests :
        /\ FallbackReturned(r) /\ req[r].story_length = "epic"
        /\ story[r].story = TemplateStory(TemplateOf(req[r].theme), req[r].kid_name)
        /\ FallbackReturned(q) /\ req[q].story_length = "short"
        /\ Len(story[q].story) = 6

InImageLoop(r) == pc[r] \in {"img", "img_sleep"}

\* C24: while generate_images runs with an initialized client, every
\* prompt is followed by exactly one pause of 1, whether the prompt ended
\* with an image, on a quota error or after its last attempt: the pause
\* starts in the step of the prompt's last call and ends before the first
\* call for the next prompt.
C24_OnePausePerPrompt ==
    /\ [](\A r \in Requests :
            /\ \A i \in 1..Len(pauses[r]) : pauses[r][i] = 1
            /\ InImageLoop(r) =>
                  Len(pauses[r]) = idx[r] - 1 /\ Len(img_fate[r]) = idx[r] - 1
            /\ pc[r] = "img_pause" =>
                  Len(pauses[r]) = idx[r] /\ Len(img_fate[r]) = idx[r]
            /\ (~InImageLoop(r) /\ pc[r] # "img_pause") => pauses[r] = <<>>)
    /\ [][\A r \in Requests :
            /\ (Len(img_fate'[r]) = Len(img_fate[r]) + 1) =>
                  /\ pc[r] = "img" /\ pc'[r] = "img_pause"
                  /\ pauses'[r] = Append(pauses[r], 1)
            /\ (pc[r] = "img_pause" /\ pc'[r] # "img_pause") =>
                  \/ pc'[r] = "img" /\ idx'[r] = idx[r] + 1 /\ img_attempt'[r] = 0
                  \/ idx[r] = Len(story_data[r].imagePrompts) /\ pc'[r] # "img"
            /\ (pc'[r] = "img" /\ idx'[r] > 1 /\ idx'[r] # idx[r]) =>
                  pc[r] = "img_pause"]_vars

C24_Witness ==
    \E r \in Requests :
        /\ API_INITIALIZED /\ pc[r] = "img_pause" /\ idx[r] = 3
        /\ img_fate[r] = <<"ok", "quota", "failed">>
        /\ pauses[r] = <<1, 1, 1>>

\* how the retry policy sees the outcome of a call: a success, a quota
\* error, or a failure to retry (a response without content, or an error
\* without quota signature)
OutcomeOf(e) == IF e.out = "ok" THEN "success" ELSE IF e.sig THEN "quota" ELSE "retry"

PolicyCall(o) == [ev |-> "call", class |-> o, d |-> 0]

PolicySleep(d) == [ev |-> "sleep", class |-> "", d |-> d]

\* the generic policy with 3 attempts and base delay 2: the calls and
\* sleeps it makes when its attempts, from the (a+1)-th on, have the
\* outcomes outs
RECURSIVE PolicyTrace(_, _)
PolicyTrace(outs, a) ==
    IF outs = <<>> \/ a >= 3 THEN <<>>
    ELSE IF Head(outs) = "retry" /\ a + 1 < 3
    THEN <<PolicyCall("retry"), PolicySleep(2 * Pow2(a))>> \o PolicyTrace(Tail(outs), a + 1)
    ELSE <<PolicyCall(Head(outs))>>

\* the calls and sleeps of a log, and the outcomes of its calls
TraceOf(log) ==
    [i \in 1..Len(log) |->
        IF IsCall(log[i]) THEN PolicyCall(OutcomeOf(log[i])) ELSE PolicySleep(log[i].d)]

OutcomesOf(log) ==
    LET calls == SelectSeq(log, IsCall)
    IN  [i \in 1..Len(calls) |-> OutcomeOf(calls[i])]

\* C25: the retry loops of analyze_photo, of generate_story and of
\* generate_images for one prompt follow one policy: at each of them the
\* calls and backoff sleeps made so far are those that the generic policy
\* with 3 attempts and base delay 2 makes for the same outcomes, so two
\* loops that have seen the same outcomes have made the same calls and
\* sleeps.
C25_OneRetryPolicy ==
    \A r \in Requests :
        /\ \A site \in Sites :
              TraceOf(oplog[r][site]) = PolicyTrace(OutcomesOf(oplog[r][site]), 0)
        /\ \A s1, s2 \in Sites :
              OutcomesOf(oplog[r][s1]) = OutcomesOf(oplog[r][s2]) =>
                  TraceOf(oplog[r][s1]) = TraceOf(oplog[r][s2])

C25_Witness ==
    \E r \in Requests :
        /\ pc[r] = "img_sleep"
        /\ OutcomesOf(oplog[r].narr) = <<"retry", "retry">>
        /\ OutcomesOf(oplog[r].img) = <<"retry", "retry">>
        /\ TraceOf(oplog[r].img) =
              <<PolicyCall("retry"), PolicySleep(2), PolicyCall("retry"), PolicySleep(4)>>
        /\ TraceOf(oplog[r].narr) = TraceOf(oplog[r].img)

\* the texts with the valid object {full 1} inside an opening json fence,
\* a closing fence, or both, with or without white space around
FencedTexts ==
    {<<FENCE_JSON, " ", "{full 1}", " ", FENCE>>,
     <<" ", FENCE_JSON, "{full 1}">>,
     <<"{full 1}", FENCE, " ">>}

\* C26: a narrative response whose text is a valid JSON object inside an
\* opening json fence and a closing fence is decoded in the attempt that
\* received it: the attempt goes on to the illustrations with the decoded
\* value, no failure is logged and no backoff sleep follows. The same
\* holds with the opening fence alone and with the closing fence alone; an
\* opening fence that is not a json fence is not removed, and the attempt
\* fails as a parse failure.
C26_FencesAreStripped ==
    \A r \in Requests :
        /\ (narr_response[r].kind = "text" /\ narr_response[r].text \in FencedTexts) =>
              /\ pc[r] = "img" /\ idx[r] = 1 /\ img_attempt[r] = 0
              /\ story_data[r] = JsonBody("{full 1}")
              /\ NumCalls(oplog[r].narr) = attempt[r]
              /\ \A i \in 1..Len(oplog[r].narr) :
                    IsCall(oplog[r].narr[i]) => oplog[r].narr[i].out = "fail"
        /\ (narr_response[r].kind = "text"
                /\ narr_response[r].text = <<FENCE, "{full 1}", FENCE>>) =>
              /\ \/ pc[r] \in {"narr_sleep", "raised"}
                 \/ pc[r] = "returned" /\ via[r] = "caught"
              /\ Last(SelectSeq(oplog[r].narr, IsCall)).out = "parse"

C26_Witness ==
    \E r \in Requests :
        /\ narr_response[r] = Response("text", <<FENCE_JSON, " ", "{full 1}", " ", FENCE>>)
        /\ pc[r] = "img" /\ attempt[r] = 1
        /\ story_data[r].imagePrompts = <<"model prompt 1">>

\* the value json.loads gives for the text of a narrative response
Decoded(resp) == loads(StripFences(Strip(resp.text))).value

SameStoryFields(d, sd) ==
    /\ d.title = sd.title /\ d.moral = sd.moral
    /\ d.story = sd.story /\ d.imagePrompts = sd.imagePrompts

\* C27: a document returned on the live path has the title, the moral,
\* the sentences and the image prompts decoded from the model's response,
\* in their order and number: the decoded value is kept as it is while the
\* illustrations are made and is copied into the Story, also when it has 2
\* sentences and a number of prompts that is not sentence_count // 2.
C27_LiveFieldsAreTheModels ==
    /\ [](\A r \in Requests :
            /\ (pc[r] = "img" /\ narr_response[r] # NoResponse) =>
                  story_data[r] = Decoded(narr_response[r])
            /\ (pc[r] = "returned" /\ via[r] = "live") =>
                  /\ story[r].title = "Model Title" /\ story[r].story = ModelStory(2)
                  /\ story[r].imagePrompts = ModelPrompts(Len(story[r].imagePrompts))
                  /\ SameStoryFields(result[r], story[r])
                  /\ Len(story[r].story) # PromptSentenceCount(req[r].story_length))
    /\ [][\A r \in Requests :
            /\ (InImages(r) /\ InImages(r)') => story_data'[r] = story_data[r]
            /\ (pc[r] # "returned" /\ pc'[r] = "returned" /\ via'[r] = "live") =>
                  SameStoryFields(story'[r],
                                  IF pc[r] = "narr" THEN Decoded(narr_response'[r])
                                  ELSE story_data[r])]_vars

C27_Witness ==
    \E r \in Requests :
        /\ pc[r] = "returned" /\ via[r] = "live"
        /\ req[r].story_length = "short"
        /\ story_prompt[r].sentences = <<"6">> /\ story_prompt[r].prompts = <<"3">>
        /\ Len(story[r].story) = 2 /\ Len(story[r].imagePrompts) = 4

\* C28: within one request generate_images runs at most once: once it
\* has been invoked for a decoded response, the request makes no further
\* narrative call and does not invoke it again.
C28_IllustrationBatchOnce ==
    \A r \in Requests :
        /\ batches[r] <= 1
        /\ batches[r] = 1 => pc[r] \notin {"narr", "narr_sleep"}

\* the decoded value has the four fields of a story
HasAllFields(sd) == sd.isObject /\ StoryKeys \subseteq sd.keys

\* C29: a failed illustration does not cost the narrative: when the
\* decoded response has the four fields, a prompt that ends on a quota
\* error or after its last attempt only leaves None at its position, the
\* batch goes on, and the request returns on the live path with the
\* model's title, moral, sentences and prompts; the images are None at
\* the positions of the failed prompts and nowhere else.
C29_ImageFailureKeepsNarrative ==
    /\ [](\A r \in Requests :
            (InImages(r) /\ HasAllFields(story_data[r])) =>
                \A i \in 1..Len(images[r]) :
                    images[r][i] = None <=> img_fate[r][i] # "ok")
    /\ [][\A r \in Requests :
            (InImages(r) /\ HasAllFields(story_data[r])) =>
                /\ story_data'[r] = story_data[r] \/ ~InImages(r)'
                /\ ~InImages(r)' =>
                      /\ pc'[r] = "returned" /\ via'[r] = "live"
                      /\ SameStoryFields(story'[r], story_data[r])
                      /\ Len(story'[r].images) = Len(story_data[r].imagePrompts)
                      /\ \A i \in 1..Len(story'[r].images) :
                            /\ story'[r].images[i] = None <=> img_fate[r][i] # "ok"
                            /\ result'[r].images[i] = None <=> img_fate[r][i] # "ok"]_vars

C29_Witness ==
    \E r \in Requests :
        /\ pc[r] = "returned" /\ via[r] = "live"
        /\ story[r].title = "Model Title" /\ story[r].story = ModelStory(2)
        /\ story[r].imagePrompts = ModelPrompts(3)
        /\ story[r].images[1] = None /\ story[r].images[2] # None
        /\ story[r].images[3] = None

\* C30: a GET for an id under which no story is stored is answered with
\* status 404 and the detail Story not found, not with the status 500 of
\* a failed retrieval.
C30_MissingStoryIs404 ==
    \A id \in StoryIds :
        retrieval[id].lookup = "missing" =>
            /\ retrieval[id].status = "404"
            /\ retrieval[id].detail = <<"Story not found">>

====
